---- MODULE Spec2Model ----
(***************************************************************************)
(* AstroTrack, update_astronomy_data.py: the daily updater that asks the   *)
(* JPL Horizons API for one state vector per configured body, parses the   *)
(* text of each answer and writes one JSON snapshot.                       *)
(*                                                                         *)
(* Text is modelled character by character: a string is a sequence of      *)
(* one-character strings, so that the two regular expressions of           *)
(* parse_vector_data are matched as Python's re module matches them.       *)
(* A float is modelled by the exact decimal its token denotes, as the      *)
(* pair <<m, e>> (m * 10^e, m not divisible by 10, zero as <<0, 0>>).      *)
(***************************************************************************)
EXTENDS Integers, Sequences, FiniteSets, TLC

\* ------------------------------------------------------------------ bounds

\* How many of the configured bodies a run iterates over.
NumBodies == 2
\* The latest clock tick at which time still advances.
MaxClock == 2
\* The largest number of lines between the markers of a generated response.
MaxLines == 2

\* ----------------------------------------------------------- configuration

CONFIGURED ==
    << <<"199", "Mercury">>, <<"299", "Venus">>, <<"399", "Earth">>,
       <<"499", "Mars">>, <<"599", "Jupiter">>, <<"699", "Saturn">>,
       <<"799", "Uranus">>, <<"899", "Neptune">> >>

\* The dict, in insertion order (which dict.items() follows).
CELESTIAL_BODIES ==
    SubSeq(CONFIGURED, 1, IF NumBodies < Len(CONFIGURED) THEN NumBodies ELSE Len(CONFIGURED))

PARSE_ERROR == "Could not parse vector data"

\* One clock tick is the request timeout, 30 seconds; a minute is two ticks.
TIMEOUT_SECONDS == 30
SECONDS_PER_MINUTE == 60

\* ------------------------------------------------------------------- state

VARIABLES
    pc,             \* "idle", "loop" (main's for loop), "exited";
                    \* "answered", "parsed", "recorded" for one answer alone
    clock,          \* the UTC clock, in ticks
    idx,            \* the position in CELESTIAL_BODIES of the next body
    output_data,    \* main's output_data
    requests,       \* the GETs issued in this run: [id, tlist]
    file,           \* astronomy_data.json
    saved,          \* what save_data returned
    exit_code,      \* the status of sys.exit
    replaced,       \* the last save overwrote another run's document
    parts,          \* the answer being parsed, by its parts
    response_text,  \* its text
    vector_data     \* what parse_vector_data returned for it

vars == <<pc, clock, idx, output_data, requests, file, saved, exit_code,
          replaced, parts, response_text, vector_data>>

progVars == <<clock, idx, requests, file, saved, exit_code, replaced>>
answerVars == <<parts, response_text, vector_data>>

\* -------------------------------------------------------------- characters

SOE_MARK == <<"$", "$", "S", "O", "E">>
EOE_MARK == <<"$", "$", "E", "O", "E">>
NL == "\n"
LBL_X == <<"X", " ", "=">>
LBL_Y == <<"Y", " ", "=">>
LBL_Z == <<"Z", " ", "=">>

\* What \s of re and str.strip() treat as whitespace.
IsSpace(c) == c \in {" ", NL, "\t", "\r"}
IsDigit(c) == c \in {"0", "1", "2", "3", "4", "5", "6", "7", "8", "9"}
IsSign(c) == c \in {"-", "+"}

DigitVal(c) ==
    CASE c = "0" -> 0 [] c = "1" -> 1 [] c = "2" -> 2 [] c = "3" -> 3
      [] c = "4" -> 4 [] c = "5" -> 5 [] c = "6" -> 6 [] c = "7" -> 7
      [] c = "8" -> 8 [] c = "9" -> 9

Min(S) == CHOOSE m \in S : \A n \in S : m <= n
Max(S) == CHOOSE m \in S : \A n \in S : m >= n

\* lit occurs in s at position i.
StartsAt(s, i, lit) ==
    /\ i >= 1
    /\ i + Len(lit) - 1 <= Len(s)
    /\ SubSeq(s, i, i + Len(lit) - 1) = lit

\* Python's `lit in s`.
Contains(s, lit) == \E i \in 1..Len(s) : StartsAt(s, i, lit)

\* The last position of the run of characters satisfying Is that starts at i
\* (i - 1 when the run is empty).
RECURSIVE SpaceRunEnd(_, _)
SpaceRunEnd(s, i) ==
    IF i <= Len(s) /\ IsSpace(s[i]) THEN SpaceRunEnd(s, i + 1) ELSE i - 1

RECURSIVE DigitRunEnd(_, _)
DigitRunEnd(s, i) ==
    IF i <= Len(s) /\ IsDigit(s[i]) THEN DigitRunEnd(s, i + 1) ELSE i - 1

\* str.strip()
RECURSIVE LStrip(_)
LStrip(s) == IF s # <<>> /\ IsSpace(s[1]) THEN LStrip(Tail(s)) ELSE s

RECURSIVE RStrip(_)
RStrip(s) ==
    IF s # <<>> /\ IsSpace(s[Len(s)]) THEN RStrip(SubSeq(s, 1, Len(s) - 1)) ELSE s

Strip(s) == RStrip(LStrip(s))

\* str.split('\n'): the pieces between the newlines (one piece, possibly
\* empty, when there is no newline).
RECURSIVE SplitFrom(_, _, _)
SplitFrom(s, from, i) ==
    IF i > Len(s) THEN << SubSeq(s, from, Len(s)) >>
    ELSE IF s[i] = NL
         THEN << SubSeq(s, from, i - 1) >> \o SplitFrom(s, i + 1, i + 1)
         ELSE SplitFrom(s, from, i + 1)

SplitLines(s) == SplitFrom(s, 1, 1)

\* --------------------------------------------------------------- the floats

RECURSIVE DecVal(_)
DecVal(ds) ==
    IF ds = <<>> THEN 0
    ELSE 10 * DecVal(SubSeq(ds, 1, Len(ds) - 1)) + DigitVal(ds[Len(ds)])

RECURSIVE Normalise(_, _)
Normalise(m, e) ==
    IF m = 0 THEN <<0, 0>>
    ELSE IF m % 10 = 0 THEN Normalise(m \div 10, e + 1)
    ELSE <<m, e>>

\* float(tok) for a token of the shape the coordinate patterns capture:
\* [-+]? digits* .? digits+ ([eE] [-+]? digits+)?
FloatOf(tok) ==
    LET signed  == tok # <<>> /\ IsSign(tok[1])
        neg     == signed /\ tok[1] = "-"
        i0      == IF signed THEN 2 ELSE 1
        intEnd  == DigitRunEnd(tok, i0)
        hasDot  == intEnd + 1 <= Len(tok) /\ tok[intEnd + 1] = "."
        fracEnd == IF hasDot THEN DigitRunEnd(tok, intEnd + 2) ELSE intEnd
        digits  == SubSeq(tok, i0, intEnd)
                     \o (IF hasDot THEN SubSeq(tok, intEnd + 2, fracEnd) ELSE <<>>)
        nfrac   == IF hasDot THEN fracEnd - (intEnd + 1) ELSE 0
        hasExp  == fracEnd < Len(tok)
        eSigned == hasExp /\ IsSign(tok[fracEnd + 2])
        eDigits == IF hasExp
                   THEN SubSeq(tok, IF eSigned THEN fracEnd + 3 ELSE fracEnd + 2, Len(tok))
                   ELSE <<>>
        eAbs    == DecVal(eDigits)
        expo    == IF eSigned /\ tok[fracEnd + 2] = "-" THEN 0 - eAbs ELSE eAbs
        mant    == DecVal(digits)
    IN  Normalise(IF neg THEN 0 - mant ELSE mant, expo - nfrac)

\* ------------------------------------------------- the regular expressions

NoMatch == <<"no match">>

\* re.search(r'\$\$SOE\s*\n(.*?)\n\$\$EOE', text, re.DOTALL): group(1), or
\* NoMatch. The leftmost $$SOE that can be completed; \s* is greedy, so of
\* the newlines that may end it the last one that still leaves a match;
\* (.*?) is lazy, so the first "\n$$EOE" after it.
SoeNewlines(text, i) ==
    { j \in (i + Len(SOE_MARK))..Len(text) :
        /\ text[j] = NL
        /\ \A q \in (i + Len(SOE_MARK))..(j - 1) : IsSpace(text[q]) }

EoeAfter(text, j) ==
    { k \in (j + 1)..Len(text) : StartsAt(text, k, <<NL>> \o EOE_MARK) }

SoeStarts(text) ==
    { i \in 1..Len(text) :
        /\ StartsAt(text, i, SOE_MARK)
        /\ \E j \in SoeNewlines(text, i) : EoeAfter(text, j) # {} }

SearchBlock(text) ==
    IF SoeStarts(text) = {} THEN NoMatch
    ELSE LET i == Min(SoeStarts(text))
             j == Max({ n \in SoeNewlines(text, i) : EoeAfter(text, n) # {} })
             k == Min(EoeAfter(text, j))
         IN  <<"match", SubSeq(text, j + 1, k - 1)>>

\* The number pattern without its leading [-+]?.
NumberEndUnsigned(line, p) ==
    LET d1      == DigitRunEnd(line, p)
        dotted  == /\ d1 + 2 <= Len(line)
                   /\ line[d1 + 1] = "."
                   /\ IsDigit(line[d1 + 2])
        mantEnd == IF dotted THEN DigitRunEnd(line, d1 + 2)
                   ELSE IF d1 >= p THEN d1 ELSE 0
        es      == IF mantEnd + 2 <= Len(line) /\ IsSign(line[mantEnd + 2])
                   THEN mantEnd + 3 ELSE mantEnd + 2
        expEnd  == DigitRunEnd(line, es)
        hasExp  == /\ mantEnd + 1 <= Len(line)
                   /\ line[mantEnd + 1] \in {"e", "E"}
                   /\ expEnd >= es
    IN  IF mantEnd = 0 THEN 0 ELSE IF hasExp THEN expEnd ELSE mantEnd

\* The end of [-+]?[0-9]*\.?[0-9]+(?:[eE][-+]?[0-9]+)? matched at position p
\* of line, or 0 when it does not match there.
NumberEnd(line, p) ==
    LET s       == IF p <= Len(line) /\ IsSign(line[p]) THEN p + 1 ELSE p
        d1      == DigitRunEnd(line, s)
        dotted  == /\ d1 + 2 <= Len(line)
                   /\ line[d1 + 1] = "."
                   /\ IsDigit(line[d1 + 2])
        mantEnd == IF dotted THEN DigitRunEnd(line, d1 + 2)
                   ELSE IF d1 >= s THEN d1 ELSE 0
        es      == IF mantEnd + 2 <= Len(line) /\ IsSign(line[mantEnd + 2])
                   THEN mantEnd + 3 ELSE mantEnd + 2
        expEnd  == DigitRunEnd(line, es)
        hasExp  == /\ mantEnd + 1 <= Len(line)
                   /\ line[mantEnd + 1] \in {"e", "E"}
                   /\ expEnd >= es
    IN  IF mantEnd = 0 THEN 0 ELSE IF hasExp THEN expEnd ELSE mantEnd

\* Where the pattern  L\s*=\s*(number)  matches with its L at position p:
\* <<first, last>> of the captured token, or <<0, 0>>.
LabelAt(line, letter, p) ==
    LET q == SpaceRunEnd(line, p + 1) + 1
        r == SpaceRunEnd(line, q + 1) + 1
    IN  IF /\ line[p] = letter
           /\ q <= Len(line)
           /\ line[q] = "="
           /\ NumberEnd(line, r) # 0
        THEN <<r, NumberEnd(line, r)>>
        ELSE <<0, 0>>

\* re.search(letter + r'\s*=\s*(number)', line): group(1) of the leftmost
\* match, or NoMatch.
SearchLabel(line, letter) ==
    LET hits == { p \in 1..Len(line) : LabelAt(line, letter, p) # <<0, 0>> }
    IN  IF hits = {} THEN NoMatch
        ELSE LET span == LabelAt(line, letter, Min(hits))
             IN  <<"match", SubSeq(line, span[1], span[2])>>

\* ------------------------------------------------------- parse_vector_data

None == [none |-> TRUE]

\* A "result" field that is no string (a JSON null, number or list).
NON_STRING == <<"<not a str>">>

\* Line 45: the stripped line is blank or a '*' line.
IsSkipped(line) == line = <<>> \/ line[1] = "*"

\* Line 49: the line holds the three labels.
IsCandidate(line) ==
    Contains(line, LBL_X) /\ Contains(line, LBL_Y) /\ Contains(line, LBL_Z)

\* The vector built from whichever of the three patterns match.
ExtractVectorPartial(line) ==
    LET x_match == SearchLabel(line, "X")
        y_match == SearchLabel(line, "Y")
        z_match == SearchLabel(line, "Z")
        found   == { l \in {"x", "y", "z"} :
                       \/ l = "x" /\ x_match # NoMatch
                       \/ l = "y" /\ y_match # NoMatch
                       \/ l = "z" /\ z_match # NoMatch }
    IN  IF found = {} THEN None
        ELSE [l \in found |->
                FloatOf((CASE l = "x" -> x_match [] l = "y" -> y_match
                           [] l = "z" -> z_match)[2])]

\* Lines 53-61: the vector of a candidate line, or None when one of the three
\* patterns does not match (the loop then goes on to the next line).
ExtractVector(line) ==
    LET x_match == SearchLabel(line, "X")
        y_match == SearchLabel(line, "Y")
        z_match == SearchLabel(line, "Z")
    IN  IF x_match # NoMatch /\ y_match # NoMatch /\ z_match # NoMatch
        THEN [x |-> FloatOf(x_match[2]),
              y |-> FloatOf(y_match[2]),
              z |-> FloatOf(z_match[2])]
        ELSE None

\* The loop that stops at the first line holding the three labels.
RECURSIVE ScanLinesFirstOnly(_, _)
ScanLinesFirstOnly(lines, i) ==
    IF i > Len(lines) THEN None
    ELSE LET line == Strip(lines[i])
         IN  IF IsSkipped(line) THEN ScanLinesFirstOnly(lines, i + 1)
             ELSE IF IsCandidate(line) THEN ExtractVector(line)
                  ELSE ScanLinesFirstOnly(lines, i + 1)

\* Lines 43-65: the for loop over the lines, from line i on.
RECURSIVE ScanLines(_, _)
ScanLines(lines, i) ==
    IF i > Len(lines) THEN None
    ELSE LET line == Strip(lines[i])
         IN  IF IsSkipped(line) THEN ScanLines(lines, i + 1)
             ELSE IF IsCandidate(line) /\ ExtractVector(line) # None
                  THEN ExtractVector(line)
                  ELSE ScanLines(lines, i + 1)

\* The parser that scans the whole text when it finds no delimited block.
parse_vector_data_whole_text(text) ==
    IF text = NON_STRING THEN None
    ELSE LET soe_match == SearchBlock(text)
         IN  IF soe_match = NoMatch THEN ScanLines(SplitLines(Strip(text)), 1)
             ELSE ScanLines(SplitLines(Strip(soe_match[2])), 1)

\* re.search raises TypeError on a non-string; the outer except returns None.
parse_vector_data(text) ==
    IF text = NON_STRING THEN None
    ELSE LET soe_match == SearchBlock(text)
         IN  IF soe_match = NoMatch THEN None
             ELSE ScanLines(SplitLines(Strip(soe_match[2])), 1)

\* ----------------------------------------------------- fetch_horizons_data

\* strftime('%Y-%m-%d %H:%M') of a clock reading: the minute it falls in.
Minute(tick) == (tick * TIMEOUT_SECONDS) \div SECONDS_PER_MINUTE

\* Lines 105-120: the body's entry, from what the parser returned.
BodyData(body, vector) ==
    IF vector # None
    THEN [id |-> body[1], name |-> body[2], type |-> "planet",
          x |-> vector.x, y |-> vector.y, z |-> vector.z]
    ELSE [id |-> body[1], name |-> body[2], error |-> PARSE_ERROR]

\* Lines 122-135: the entry either except clause builds.
ErrorData(body, message) ==
    [id |-> body[1], name |-> body[2], error |-> message]

\* Failures are printed and not recorded.
ClassifyDropsFailures(data, body_data) ==
    IF "error" \in DOMAIN body_data
    THEN data
    ELSE [data EXCEPT !.bodies = Append(@, body_data)]

\* Entries are inserted at the front.
ClassifyPrepends(data, body_data) ==
    IF "error" \in DOMAIN body_data
    THEN [data EXCEPT !.failed = <<body_data>> \o @]
    ELSE [data EXCEPT !.bodies = <<body_data>> \o @]

\* Lines 179-183: where main() appends an entry.
Classify(data, body_data) ==
    IF "error" \in DOMAIN body_data
    THEN [data EXCEPT !.failed = Append(@, body_data)]
    ELSE [data EXCEPT !.bodies = Append(@, body_data)]

\* The earlier variant: the document starts from the one in the file.
FreshOutputMerged(now) ==
    IF file.state = "written"
    THEN [file.doc EXCEPT !.timestamp_utc = now]
    ELSE [timestamp_utc |-> now, center |-> "Sun", ref_plane |-> "ECLIPTIC",
          units |-> [distance |-> "au"], bodies |-> <<>>, failed |-> <<>>]

\* Lines 161-170.
FreshOutput(now) ==
    [timestamp_utc |-> now, center |-> "Sun", ref_plane |-> "ECLIPTIC",
     units |-> [distance |-> "au"], bodies |-> <<>>, failed |-> <<>>]

\* The status that ignores what save_data returned.
ExitStatusAlwaysZero(ok) == 0

\* Lines 186-193: the status main() exits with.
ExitStatus(ok) == IF ok THEN 0 ELSE 1

\* --------------------------------------------------- the service's answers

\* The lines a generated answer is made of.
LineSpecExample == <<" ", "X", " ", "=", " ", "9", ".", "8", "E", "-", "0", "1", " ", "Y", " ", "=", " ", "1", ".", "9", "E", "-", "0", "1", " ", "Z", " ", "=", "-", "1", ".", "6", "E", "-", "0", "5">>
LinePlain == <<"X", " ", "=", " ", "2", " ", "Y", " ", "=", " ", ".", "5", " ", "Z", " ", "=", " ", "+", "3", "0">>
LineStar == <<"*", "X", " ", "=", " ", "4", " ", "Y", " ", "=", " ", "4", " ", "Z", " ", "=", " ", "4">>
LineEpoch == <<"2", "4", "6", "0", "0", "0", "0", ".", "5", " ", "=", " ", "A", ".", "D", ".">>
LineNoZ == <<"X", " ", "=", " ", "1", " ", "Y", " ", "=", " ", "2">>
LineBadY == <<"X", " ", "=", " ", "1", " ", "Y", " ", "=", " ", "n", " ", "Z", " ", "=", " ", "3">>
LineVX == <<"V", "X", "=", "7", " ", "X", " ", "=", " ", "1", " ", "Y", " ", "=", " ", "2", " ", "Z", " ", "=", " ", "3">>
LineBlank == <<" ">>

LineKinds == {"example", "plain", "star", "epoch", "no_z", "bad_y", "vx", "blank"}

LineText(kind) ==
    CASE kind = "example" -> LineSpecExample
      [] kind = "plain"   -> LinePlain
      [] kind = "star"    -> LineStar
      [] kind = "epoch"   -> LineEpoch
      [] kind = "no_z"    -> LineNoZ
      [] kind = "bad_y"   -> LineBadY
      [] kind = "vx"      -> LineVX
      [] kind = "blank"   -> LineBlank

Header == <<"A", "P", "I", " ", "1", ".", "2", "\n">>

\* How the answer opens and closes its data block.
SoeKinds == {"own_line", "trailing_space", "same_line", "absent"}
EoeKinds == {"own_line", "same_line", "absent"}

SoeText(kind) ==
    CASE kind = "own_line"       -> SOE_MARK \o <<NL>>
      [] kind = "trailing_space" -> SOE_MARK \o <<" ", NL>>
      [] kind = "same_line"      -> SOE_MARK \o <<" ">>
      [] kind = "absent"         -> <<>>

EoeText(kind) ==
    CASE kind = "own_line"  -> <<NL>> \o EOE_MARK \o <<NL>>
      [] kind = "same_line" -> <<" ">> \o EOE_MARK \o <<NL>>
      [] kind = "absent"    -> <<NL>>

RECURSIVE JoinLines(_)
JoinLines(kinds) ==
    IF kinds = <<>> THEN <<>>
    ELSE IF Len(kinds) = 1 THEN LineText(kinds[1])
    ELSE LineText(kinds[1]) \o <<NL>> \o JoinLines(Tail(kinds))

\* An answer is described by its parts; Render is its text.
Parts ==
    [string : {TRUE}, header : BOOLEAN, soe : SoeKinds,
     lines : UNION { [1..n -> LineKinds] : n \in 0..MaxLines }, eoe : EoeKinds]
      \cup { [string |-> FALSE, header |-> FALSE, soe |-> "absent",
              lines |-> <<>>, eoe |-> "absent"] }

Render(p) ==
    IF ~p.string THEN NON_STRING
    ELSE (IF p.header THEN Header ELSE <<>>)
           \o SoeText(p.soe) \o JoinLines(p.lines) \o EoeText(p.eoe)

\* The answers a run of main() is given: the documented example in a
\* well-formed block, and a text without the markers.
GoodParts ==
    [string |-> TRUE, header |-> TRUE, soe |-> "own_line",
     lines |-> <<"epoch", "example">>, eoe |-> "own_line"]
BareParts ==
    [string |-> TRUE, header |-> TRUE, soe |-> "absent",
     lines |-> <<>>, eoe |-> "absent"]
RunAnswers == {Render(GoodParts), Render(BareParts)}
\* What the parser makes of each of them (line 103).
RunVectors == { parse_vector_data(text) : text \in RunAnswers }

\* str(e) of the exceptions a request raises.
REQUEST_ERRORS == {"Read timed out"}
OTHER_ERRORS == {"Expecting value"}

NoFile == [state |-> "absent"]
PartialFile == [state |-> "partial"]
\* json.dump writes the document; the file's text is represented by the
\* document it denotes.
Written(doc) == [state |-> "written", doc |-> doc]

NoExit == -1

Init ==
    /\ pc = "idle"
    /\ clock = 0
    /\ idx = 1
    /\ file = NoFile
    /\ output_data = FreshOutput(0)
    /\ requests = <<>>
    /\ saved = FALSE
    /\ exit_code = NoExit
    /\ replaced = FALSE
    /\ parts = BareParts
    /\ response_text = <<>>
    /\ vector_data = None

\* ------------------------------------------------------------------ main()

\* Time that passes while a call blocks: up to the timeout, one tick.
Elapse(d) == d \in 0..1 /\ clock + d <= MaxClock /\ clock' = clock + d

\* The process is started (again): lines 156-174.
Start ==
    /\ pc \in {"idle", "exited"}
    /\ \E d \in 0..1 : Elapse(d)
    /\ pc' = "loop"
    /\ idx' = 1
    /\ output_data' = FreshOutput(clock')
    /\ requests' = <<>>
    /\ saved' = FALSE
    /\ exit_code' = NoExit
    /\ replaced' = FALSE
    /\ UNCHANGED <<file, answerVars>>

\* Lines 75-94: the request of the next body, with TLIST read off the clock.
Request(body) == [id |-> body[1], tlist |-> Minute(clock)]

\* One iteration of the for loop whose request is answered: lines 94-120
\* and 179-183.
FetchAnswered ==
    /\ pc = "loop"
    /\ idx <= Len(CELESTIAL_BODIES)
    /\ \E vector \in RunVectors, d \in 0..1 :
         /\ Elapse(d)
         /\ output_data' =
              Classify(output_data, BodyData(CELESTIAL_BODIES[idx], vector))
    /\ requests' = Append(requests, Request(CELESTIAL_BODIES[idx]))
    /\ idx' = idx + 1
    /\ UNCHANGED <<pc, file, saved, exit_code, replaced, answerVars>>

\* A RequestException that is not caught: the run ends before save_data.
FetchRequestErrorAborts ==
    /\ pc = "loop"
    /\ idx <= Len(CELESTIAL_BODIES)
    /\ \E d \in 0..1 : Elapse(d)
    /\ requests' = Append(requests, Request(CELESTIAL_BODIES[idx]))
    /\ idx' = idx + 1
    /\ pc' = "exited"
    /\ exit_code' = 1
    /\ UNCHANGED <<output_data, file, saved, replaced, answerVars>>

\* One iteration whose request raises a RequestException: lines 122-128.
FetchRequestError ==
    /\ pc = "loop"
    /\ idx <= Len(CELESTIAL_BODIES)
    /\ \E message \in REQUEST_ERRORS, d \in 0..1 :
         /\ Elapse(d)
         /\ output_data' =
              Classify(output_data, ErrorData(CELESTIAL_BODIES[idx], message))
    /\ requests' = Append(requests, Request(CELESTIAL_BODIES[idx]))
    /\ idx' = idx + 1
    /\ UNCHANGED <<pc, file, saved, exit_code, replaced, answerVars>>

\* One iteration whose answer raises any other exception (response.json(),
\* data.get): lines 129-135.
FetchOtherError ==
    /\ pc = "loop"
    /\ idx <= Len(CELESTIAL_BODIES)
    /\ \E message \in OTHER_ERRORS, d \in 0..1 :
         /\ Elapse(d)
         /\ output_data' =
              Classify(output_data, ErrorData(CELESTIAL_BODIES[idx], message))
    /\ requests' = Append(requests, Request(CELESTIAL_BODIES[idx]))
    /\ idx' = idx + 1
    /\ UNCHANGED <<pc, file, saved, exit_code, replaced, answerVars>>

\* save_data succeeds, lines 143-147, and main() exits, lines 186-190.
SaveWritten ==
    /\ pc = "loop"
    /\ idx > Len(CELESTIAL_BODIES)
    /\ file' = Written(output_data)
    /\ saved' = TRUE
    /\ exit_code' = ExitStatus(TRUE)
    /\ replaced' = (file.state = "written" /\ file # Written(output_data))
    /\ pc' = "exited"
    /\ UNCHANGED <<clock, idx, output_data, requests, answerVars>>

\* save_data catches an IOError, lines 148-150, and main() exits, lines
\* 191-193. open() failed and the file is as it was, or the write failed
\* after open() truncated it.
SaveFailed ==
    /\ pc = "loop"
    /\ idx > Len(CELESTIAL_BODIES)
    /\ file' \in {file, PartialFile}
    /\ saved' = FALSE
    /\ exit_code' = ExitStatus(FALSE)
    /\ replaced' = FALSE
    /\ pc' = "exited"
    /\ UNCHANGED <<clock, idx, output_data, requests, answerVars>>

Next ==
    \/ Start
    \/ FetchAnswered
    \/ FetchRequestError
    \/ FetchOtherError
    \/ SaveWritten
    \/ SaveFailed

Spec == Init /\ [][Next]_vars

\* -------------------------------------------------- one answer, on its own

\* Any answer, handed to fetch_horizons_data for the first body.
InitAnswer ==
    /\ pc = "answered"
    /\ clock = 0
    /\ idx = 1
    /\ file = NoFile
    /\ output_data = FreshOutput(0)
    /\ requests = <<Request(CELESTIAL_BODIES[1])>>
    /\ saved = FALSE
    /\ exit_code = NoExit
    /\ replaced = FALSE
    /\ parts \in Parts
    /\ response_text = Render(parts)
    /\ vector_data = None

\* Line 103.
ParseAnswer ==
    /\ pc = "answered"
    /\ vector_data' = parse_vector_data(response_text)
    /\ pc' = "parsed"
    /\ UNCHANGED <<progVars, output_data, parts, response_text>>

\* Lines 105-120 and 179-183.
RecordAnswer ==
    /\ pc = "parsed"
    /\ output_data' = Classify(output_data, BodyData(CELESTIAL_BODIES[idx], vector_data))
    /\ idx' = idx + 1
    /\ pc' = "recorded"
    /\ UNCHANGED <<clock, requests, file, saved, exit_code, replaced, answerVars>>

NextAnswer == ParseAnswer \/ RecordAnswer

SpecAnswer == InitAnswer /\ [][NextAnswer]_vars

\* ================================================================ the claims

\* ---- what the claims speak of, in a run of main()

Entries == output_data.bodies \o output_data.failed
Running == pc \in {"loop", "exited"}
AllFetched == Running /\ idx > Len(CELESTIAL_BODIES)
Position(id) == CHOOSE k \in 1..Len(CELESTIAL_BODIES) : CELESTIAL_BODIES[k][1] = id
InConfigOrder(seq) ==
    \A i, j \in 1..Len(seq) :
        (i < j) <=> (Position(seq[i].id) < Position(seq[j].id))

\* C1: when main() hands the document to save_data, every configured
\* identifier is the id of exactly one entry of bodies ++ failed, so the two
\* lengths add up to the number of configured bodies.
C1_EachBodyOnce ==
    AllFetched =>
        /\ \A b \in 1..Len(CELESTIAL_BODIES) :
             Cardinality({ i \in 1..Len(Entries) :
                             Entries[i].id = CELESTIAL_BODIES[b][1] }) = 1
        /\ Len(output_data.bodies) + Len(output_data.failed) = Len(CELESTIAL_BODIES)

C1_Witness ==
    /\ pc = "exited"
    /\ Len(output_data.bodies) >= 1
    /\ Len(output_data.failed) >= 1

\* C2: every body is requested exactly once, in turn, whatever the earlier
\* bodies' outcomes, and the run exits only after all of them were requested.
C2_OneAttemptEach ==
    /\ Running =>
         /\ Len(requests) = idx - 1
         /\ \A i \in 1..Len(requests) : requests[i].id = CELESTIAL_BODIES[i][1]
    /\ pc = "exited" =>
         /\ Len(requests) = Len(CELESTIAL_BODIES)
         /\ Len(Entries) = Len(CELESTIAL_BODIES)

C2_Witness ==
    /\ pc = "exited"
    /\ output_data.failed # <<>>
    /\ output_data.failed[1].id = CELESTIAL_BODIES[1][1]
    /\ output_data.failed[1].error \in REQUEST_ERRORS
    /\ output_data.bodies # <<>>
    /\ Len(requests) = Len(CELESTIAL_BODIES)

\* C3: the exit status is 0 exactly when save_data wrote the file, however
\* many bodies failed, and is not 0 when the write failed.
C3_ExitFollowsSave ==
    /\ pc = "exited" =>
         /\ exit_code = 0 <=> saved
         /\ ~saved => exit_code # 0
         /\ saved => file = Written(output_data)
    /\ pc = "loop" => exit_code = NoExit

C3_Witness ==
    /\ pc = "exited"
    /\ exit_code = 0
    /\ output_data.bodies = <<>>
    /\ Len(output_data.failed) = Len(CELESTIAL_BODIES)

\* C4: once a run's write succeeds the file holds that run's document and
\* nothing else: one entry per request of this run, none carried over from
\* the file an earlier run wrote.
C4_FileIsThisRun ==
    /\ pc = "exited" /\ saved =>
         /\ file = Written(output_data)
         /\ Len(file.doc.bodies) + Len(file.doc.failed) = Len(requests)
    /\ pc = "loop" => Len(Entries) = Len(requests)

C4_Witness ==
    /\ pc = "exited"
    /\ saved
    /\ replaced
    /\ file = Written(output_data)

\* C5: bodies and failed are each in the order of CELESTIAL_BODIES.
C5_ConfigOrder ==
    Running => InConfigOrder(output_data.bodies) /\ InConfigOrder(output_data.failed)

C5_Witness ==
    /\ pc = "exited"
    /\ Len(output_data.bodies) >= 2

Parsed == pc \in {"parsed", "recorded"}

\* The lines that are neither blank nor '*' lines and hold the three labels,
\* and those of them with a number after each label.
Labelled == {"example", "plain", "bad_y", "vx"}
WellFormed == {"example", "plain", "vx"}

RECURSIVE FirstOf(_, _)
FirstOf(kinds, S) ==
    IF kinds = <<>> THEN "none"
    ELSE IF kinds[1] \in S THEN kinds[1] ELSE FirstOf(Tail(kinds), S)

\* The numbers written after 'X =', 'Y =' and 'Z =' in each such line.
TokensAfterLabels(kind) ==
    CASE kind = "example" -> [x |-> <<98, -2>>, y |-> <<19, -2>>, z |-> <<-16, -6>>]
      [] kind = "plain"   -> [x |-> <<2, 0>>, y |-> <<5, -1>>, z |-> <<3, 1>>]
      [] kind = "vx"      -> [x |-> <<1, 0>>, y |-> <<2, 0>>, z |-> <<3, 0>>]

\* The numbers after the first X, Y and Z that an '=' follows: in the "vx"
\* line the first such X is the one of 'VX=7'.
TokensAfterFirstMatch(kind) ==
    IF kind = "vx" THEN [x |-> <<7, 0>>, y |-> <<2, 0>>, z |-> <<3, 0>>]
    ELSE TokensAfterLabels(kind)

BothMarkers == parts.string /\ parts.soe # "absent" /\ parts.eoe # "absent"
\* $$SOE ends its line and $$EOE begins one.
MarkersOnOwnLines ==
    parts.string /\ parts.soe \in {"own_line", "trailing_space"} /\ parts.eoe = "own_line"
LacksMarker ==
    ~Contains(response_text, SOE_MARK) \/ ~Contains(response_text, EOE_MARK)

\* C6, as claimed: with both markers anywhere in the text, a first labelled
\* line with a number after each label gives the vector of those numbers.
C6_AnywhereInText ==
    (Parsed /\ BothMarkers /\ FirstOf(parts.lines, Labelled) \in WellFormed)
        => vector_data = TokensAfterLabels(FirstOf(parts.lines, Labelled))

\* C6, amended: with $$SOE ending its line and $$EOE beginning one, a first
\* labelled line with a number after each label gives the vector of the
\* numbers that follow the first 'X\s*=', 'Y\s*=' and 'Z\s*=' of the line.
C6_BlockOnOwnLines ==
    (Parsed /\ MarkersOnOwnLines /\ FirstOf(parts.lines, Labelled) \in WellFormed)
        => vector_data = TokensAfterFirstMatch(FirstOf(parts.lines, Labelled))

C6_Witness ==
    /\ Parsed
    /\ MarkersOnOwnLines
    /\ parts.header
    /\ parts.lines = <<"epoch", "example">>
    /\ vector_data = [x |-> <<98, -2>>, y |-> <<19, -2>>, z |-> <<-16, -6>>]

\* C7: a text without $$SOE or without $$EOE parses to None, and the body
\* is recorded in failed with the fixed message.
C7_NoMarkerNoVector ==
    /\ Parsed /\ LacksMarker => vector_data = None
    /\ pc = "recorded" /\ LacksMarker =>
         /\ output_data.bodies = <<>>
         /\ output_data.failed =
              << [id |-> "199", name |-> "Mercury",
                  error |-> "Could not parse vector data"] >>

C7_Witness ==
    /\ pc = "recorded"
    /\ parts.soe = "own_line"
    /\ parts.eoe = "absent"
    /\ parts.lines = <<"example">>
    /\ Len(output_data.failed) = 1

\* C8: the parser returns None or all of x, y and z; it returns None when
\* every line omits a label or a value; so an entry of bodies has the three
\* and an entry of failed has none.
C8_NoPartialVector ==
    /\ Parsed => vector_data = None \/ DOMAIN vector_data = {"x", "y", "z"}
    /\ (Parsed /\ \A i \in 1..Len(parts.lines) : parts.lines[i] \notin WellFormed)
         => vector_data = None
    /\ pc = "recorded" =>
         /\ \A i \in 1..Len(output_data.bodies) :
              {"x", "y", "z"} \subseteq DOMAIN output_data.bodies[i]
         /\ \A i \in 1..Len(output_data.failed) :
              {"x", "y", "z"} \cap DOMAIN output_data.failed[i] = {}

C8_Witness ==
    /\ pc = "recorded"
    /\ MarkersOnOwnLines
    /\ parts.lines = <<"no_z">>
    /\ output_data.bodies = <<>>
    /\ Len(output_data.failed) = 1

\* C9, as claimed: when extraction fails on the first labelled line the
\* result is None, whatever follows.
C9_FirstLabelledLineDecides ==
    (Parsed /\ MarkersOnOwnLines /\ FirstOf(parts.lines, Labelled) = "bad_y")
        => vector_data = None

\* C9, amended: the first labelled line from which the three numbers are
\* extracted gives the vector; a labelled line on which extraction fails is
\* passed over; None is returned only when no line gives a vector.
C9_FirstExtractableLineDecides ==
    (Parsed /\ MarkersOnOwnLines) =>
        vector_data =
            IF FirstOf(parts.lines, WellFormed) = "none" THEN None
            ELSE TokensAfterFirstMatch(FirstOf(parts.lines, WellFormed))

C9_Witness ==
    /\ Parsed
    /\ MarkersOnOwnLines
    /\ parts.lines = <<"bad_y", "plain">>
    /\ vector_data = [x |-> <<2, 0>>, y |-> <<5, -1>>, z |-> <<3, 1>>]

====
